---- MODULE Spec2Model ----
(***************************************************************************)
(* Model of the product-listing pipeline of step4_integration.py           *)
(* (validate input -> call ChatGPT -> validate response) and of the        *)
(* pydantic models of validate_json_step3.py.                              *)
(*                                                                         *)
(* Text is modelled character by character: a Python str is a sequence of  *)
(* one-character strings, so that slicing (content[7:-3]), str.strip() and *)
(* json.loads work on characters as the code does.                         *)
(***************************************************************************)
EXTENDS Integers, Sequences, FiniteSets, TLC

\* ------------------------------------------------------------------------
\* Characters and Python str helpers
\* ------------------------------------------------------------------------
Q == "\""
NL == "\n"
SP == " "
\* the backquote character of a code fence
BT == "BACKTICK"

Digits == {"0", "1", "2", "3", "4", "5", "6", "7", "8", "9"}

DigitVal ==
    ("0" :> 0) @@ ("1" :> 1) @@ ("2" :> 2) @@ ("3" :> 3) @@ ("4" :> 4) @@
    ("5" :> 5) @@ ("6" :> 6) @@ ("7" :> 7) @@ ("8" :> 8) @@ ("9" :> 9)

\* str.isalpha() on one character of the model's alphabet
IsAlpha(c) ==
    c \in {"a", "b", "c", "d", "e", "f", "g", "h", "i", "j", "k", "l", "m",
           "n", "o", "p", "q", "r", "s", "t", "u", "v", "w", "x", "y", "z",
           "A", "B", "C", "D", "E", "F", "G", "H", "I", "J", "K", "L", "M",
           "N", "O", "P", "Q", "R", "S", "T", "U", "V", "W", "X", "Y", "Z"}

\* str.isspace() on one character
IsSpace(c) == c \in {SP, NL}

\* the characters json.loads skips between tokens
IsJsonWs(c) == c \in {SP, NL}

\* n copies of the character c
Rep(c, n) == [i \in 1..n |-> c]

\* Python slice s[a:b] with 0 <= a and b counted from the start (0-based,
\* end exclusive); an empty range gives the empty string
Slice(s, a, b) == IF b <= a THEN <<>> ELSE SubSeq(s, a + 1, b)

\* Python s[a:-k] for a >= 0, k > 0
SliceFromToNeg(s, a, k) ==
    LET lo == IF a > Len(s) THEN Len(s) ELSE a
        hi == IF Len(s) - k < 0 THEN 0 ELSE Len(s) - k
    IN  Slice(s, lo, hi)

\* str.startswith(prefix)
StartsWith(s, p) == Len(s) >= Len(p) /\ SubSeq(s, 1, Len(p)) = p

\* ------------------------------------------------------------------------
\* JSON values (what json.loads returns / what a dict literal holds)
\* ------------------------------------------------------------------------
\* every value carries the same fields so that values of different JSON types
\* can be compared: t is the type, b the boolean (or a number's sign), n the
\* integer part, s the characters (or a number's fractional digits without
\* trailing zeros), xs the elements or members
JVal(t, b, n, s, xs) == [t |-> t, b |-> b, n |-> n, s |-> s, xs |-> xs]
JNull == JVal("null", FALSE, 0, <<>>, <<>>)
JBool(b) == JVal("bool", b, 0, <<>>, <<>>)
JNum(neg, int, frac) == JVal("num", neg, int, frac, <<>>)
JStr(s) == JVal("str", FALSE, 0, s, <<>>)
JArr(xs) == JVal("arr", FALSE, 0, <<>>, xs)
\* an object is its sequence of members [k |-> key characters, val |-> value]
JObj(ms) == JVal("obj", FALSE, 0, <<>>, ms)
Member(k, val) == [k |-> k, val |-> val]

\* ------------------------------------------------------------------------
\* json.loads
\* ------------------------------------------------------------------------
Fail == [ok |-> FALSE, val |-> JNull, pos |-> 0]
Ok(val, pos) == [ok |-> TRUE, val |-> val, pos |-> pos]

RECURSIVE SkipWs(_, _)
SkipWs(s, i) ==
    IF i <= Len(s) /\ IsJsonWs(s[i]) THEN SkipWs(s, i + 1) ELSE i

\* index of the closing quote of a string whose content starts at i: the
\* first quote at or after i, 0 if there is none or a control character
\* (newline) comes first
StringEnd(s, i) ==
    LET stops == {j \in i..Len(s) : s[j] = Q \/ s[j] = NL}
        first == CHOOSE j \in stops : \A k \in stops : j <= k
    IN  IF stops = {} THEN 0
        ELSE IF s[first] = Q THEN first
        ELSE 0

ParseString(s, i) ==
    LET j == StringEnd(s, i + 1)
    IN  IF j = 0 THEN Fail ELSE Ok(JStr(Slice(s, i, j - 1)), j + 1)

\* index after the last digit of the run of digits starting at i
RECURSIVE DigitsEnd(_, _)
DigitsEnd(s, i) ==
    IF i <= Len(s) /\ s[i] \in Digits THEN DigitsEnd(s, i + 1) ELSE i

\* value of the digits s[i..j-1]
RECURSIVE DigitsValue(_, _, _)
DigitsValue(s, i, j) ==
    IF j <= i THEN 0 ELSE DigitsValue(s, i, j - 1) * 10 + DigitVal[s[j - 1]]

\* fractional digits with the trailing zeros dropped
RECURSIVE TrimZeros(_)
TrimZeros(d) ==
    IF d # <<>> /\ d[Len(d)] = "0" THEN TrimZeros(SubSeq(d, 1, Len(d) - 1))
    ELSE d

ParseNumber(s, i) ==
    LET neg == s[i] = "-"
        a == IF neg THEN i + 1 ELSE i
        b == DigitsEnd(s, a)
        hasFrac == b <= Len(s) /\ s[b] = "."
        c == IF hasFrac THEN DigitsEnd(s, b + 1) ELSE b
    IN  IF b = a THEN Fail
        ELSE IF b - a > 1 /\ s[a] = "0" THEN Fail
        ELSE IF hasFrac /\ c = b + 1 THEN Fail
        ELSE Ok(JNum(neg, DigitsValue(s, a, b),
                     IF hasFrac THEN TrimZeros(Slice(s, b, c - 1)) ELSE <<>>),
                c)

ParseLiteral(s, i, word, val) ==
    IF i + Len(word) - 1 <= Len(s) /\ SubSeq(s, i, i + Len(word) - 1) = word
    THEN Ok(val, i + Len(word))
    ELSE Fail

RECURSIVE ParseValue(_, _)
RECURSIVE ParseElements(_, _, _)
RECURSIVE ParseMembers(_, _, _)

\* after an element: "," continues the array, "]" ends it
ParseElements(s, i, acc) ==
    LET r == ParseValue(s, i)
        k == SkipWs(s, r.pos)
    IN  IF ~r.ok \/ k > Len(s) THEN Fail
        ELSE IF s[k] = "," THEN ParseElements(s, k + 1, Append(acc, r.val))
        ELSE IF s[k] = "]" THEN Ok(JArr(Append(acc, r.val)), k + 1)
        ELSE Fail

\* a member is string ":" value; "," continues the object, "}" ends it
ParseMembers(s, i, acc) ==
    LET a == SkipWs(s, i)
        key == IF a <= Len(s) /\ s[a] = Q THEN ParseString(s, a) ELSE Fail
        c == SkipWs(s, key.pos)
        r == IF key.ok /\ c <= Len(s) /\ s[c] = ":"
             THEN ParseValue(s, c + 1) ELSE Fail
        k == SkipWs(s, r.pos)
        ms == Append(acc, Member(key.val.s, r.val))
    IN  IF ~r.ok \/ k > Len(s) THEN Fail
        ELSE IF s[k] = "," THEN ParseMembers(s, k + 1, ms)
        ELSE IF s[k] = "}" THEN Ok(JObj(ms), k + 1)
        ELSE Fail

ParseValue(s, i0) ==
    LET i == SkipWs(s, i0)
    IN  IF i > Len(s) THEN Fail
        ELSE IF s[i] = Q THEN ParseString(s, i)
        ELSE IF s[i] = "-" \/ s[i] \in Digits THEN ParseNumber(s, i)
        ELSE IF s[i] = "n" THEN ParseLiteral(s, i, <<"n", "u", "l", "l">>, JNull)
        ELSE IF s[i] = "t"
            THEN ParseLiteral(s, i, <<"t", "r", "u", "e">>, JBool(TRUE))
        ELSE IF s[i] = "f"
            THEN ParseLiteral(s, i, <<"f", "a", "l", "s", "e">>, JBool(FALSE))
        ELSE IF s[i] = "["
            THEN LET k == SkipWs(s, i + 1)
                 IN  IF k <= Len(s) /\ s[k] = "]" THEN Ok(JArr(<<>>), k + 1)
                     ELSE ParseElements(s, i + 1, <<>>)
        ELSE IF s[i] = "{"
            THEN LET k == SkipWs(s, i + 1)
                 IN  IF k <= Len(s) /\ s[k] = "}" THEN Ok(JObj(<<>>), k + 1)
                     ELSE ParseMembers(s, i + 1, <<>>)
        ELSE Fail

\* the whole text must be one value
WholeText(s, r) == IF r.ok /\ SkipWs(s, r.pos) > Len(s) THEN r ELSE Fail

\* json.loads(text): ok = FALSE stands for json.JSONDecodeError
JsonLoads(s) == WholeText(s, ParseValue(s, 1))

\* ------------------------------------------------------------------------
\* Python values: None / a value, dict access
\* ------------------------------------------------------------------------
\* an optional value is a sequence of at most one element
None == <<>>
Some(x) == <<x>>

\* key in data (data is a dict)
Has(data, k) == \E i \in 1..Len(data.xs) : data.xs[i].k = k

\* data[key] for a key the dict has
Get(data, k) ==
    LET i == CHOOSE j \in 1..Len(data.xs) :
                 /\ data.xs[j].k = k
                 /\ \A m \in (j + 1)..Len(data.xs) : data.xs[m].k # k
    IN  data.xs[i].val

\* str.strip(): leading and trailing whitespace removed
RECURSIVE LStrip(_)
LStrip(s) == IF s # <<>> /\ IsSpace(s[1]) THEN LStrip(Tail(s)) ELSE s

RECURSIVE RStrip(_)
RStrip(s) ==
    IF s # <<>> /\ IsSpace(s[Len(s)]) THEN RStrip(SubSeq(s, 1, Len(s) - 1))
    ELSE s

\* a strip that removes one character at most from each end
StripOneEach(s) ==
    LET l == IF s # <<>> /\ IsSpace(s[1]) THEN Tail(s) ELSE s
    IN  IF l # <<>> /\ IsSpace(l[Len(l)]) THEN SubSeq(l, 1, Len(l) - 1) ELSE l

Strip(s) == RStrip(LStrip(s))

\* ------------------------------------------------------------------------
\* Field names and enumeration values, as characters
\* ------------------------------------------------------------------------
kProduct == <<"p", "r", "o", "d", "u", "c", "t">>
kTargetAudience ==
    <<"t", "a", "r", "g", "e", "t", "_", "a", "u", "d", "i", "e", "n", "c", "e">>
kTone == <<"t", "o", "n", "e">>
kLanguage == <<"l", "a", "n", "g", "u", "a", "g", "e">>
kName == <<"n", "a", "m", "e">>
kPrice == <<"p", "r", "i", "c", "e">>
kCategory == <<"c", "a", "t", "e", "g", "o", "r", "y">>
kDescription == <<"d", "e", "s", "c", "r", "i", "p", "t", "i", "o", "n">>
kBrand == <<"b", "r", "a", "n", "d">>
kInStock == <<"i", "n", "_", "s", "t", "o", "c", "k">>
kTitle == <<"t", "i", "t", "l", "e">>
kFeatures == <<"f", "e", "a", "t", "u", "r", "e", "s">>
kKeywords == <<"k", "e", "y", "w", "o", "r", "d", "s">>

ELECTRONICS == <<"e", "l", "e", "c", "t", "r", "o", "n", "i", "c", "s">>
CLOTHING == <<"c", "l", "o", "t", "h", "i", "n", "g">>
HOME_GOODS == <<"h", "o", "m", "e", "_", "g", "o", "o", "d", "s">>
BOOKS == <<"b", "o", "o", "k", "s">>
OTHER_ == <<"o", "t", "h", "e", "r">>

ProductCategory == {ELECTRONICS, CLOTHING, HOME_GOODS, BOOKS, OTHER_}

\* the defaults of ProductListingRequest
DefaultTargetAudience == <<"g", "e", "n", "e", "r", "a", "l">>
DefaultTone ==
    <<"p", "r", "o", "f", "e", "s", "s", "i", "o", "n", "a", "l">>
DefaultLanguage == <<"E", "n", "g", "l", "i", "s", "h">>

\* ------------------------------------------------------------------------
\* Field constraints (pydantic Field(...))
\* ------------------------------------------------------------------------
NameMinLength == 1
NameMaxLength == 100
DescriptionMaxLength == 500
BrandMaxLength == 50
PriceLimit == 1000000
TitleMinLength == 10
TitleMaxLength == 100
ResponseDescriptionMinLength == 100
ResponseDescriptionMaxLength == 1000
FeaturesMinLength == 3
FeaturesMaxLength == 10
KeywordsMinLength == 10

\* one entry of ValidationError.errors(): loc is the path, type the kind
FieldError(loc, type) == [loc |-> loc, type |-> type]

\* the outcome of validating one field: errs is empty and val the validated
\* value, or errs are the violations
Good(val) == [errs |-> <<>>, val |-> val]
Bad(loc, type, dummy) == [errs |-> <<FieldError(loc, type)>>, val |-> dummy]

\* a str field with min_length / max_length (max < 0: no upper limit)
StrField(v, loc, minLen, maxLen) ==
    IF v.t # "str" THEN Bad(loc, "string_type", <<>>)
    ELSE IF Len(v.s) < minLen THEN Bad(loc, "string_too_short", <<>>)
    ELSE IF maxLen >= 0 /\ Len(v.s) > maxLen
        THEN Bad(loc, "string_too_long", <<>>)
    ELSE Good(v.s)

\* an Optional[str] field with max_length; the value is None or the string
OptionalOf(r) == [errs |-> r.errs, val |-> IF r.errs = <<>> THEN Some(r.val) ELSE None]

OptionalStrField(v, loc, maxLen) ==
    IF v.t = "null" THEN Good(None) ELSE OptionalOf(StrField(v, loc, 0, maxLen))

\* x > m for a number x and an integer m >= 0
NumGt(x, m) == ~x.b /\ (x.n > m \/ (x.n = m /\ x.s # <<>>))

\* float(text) for the text of a str
FloatOfStr(text, r, loc) ==
    IF r.ok /\ r.pos = Len(text) + 1 THEN Good(r.val)
    ELSE Bad(loc, "float_parsing", JNull)

StrippedFloat(text, loc) ==
    IF text = <<>> THEN Bad(loc, "float_parsing", JNull)
    ELSE FloatOfStr(text, ParseNumber(text, 1), loc)

\* a float field in lax mode: a number, or a str holding one
FloatInput(v, loc) ==
    IF v.t = "num" THEN Good(v)
    ELSE IF v.t = "str" THEN StrippedFloat(Strip(v.s), loc)
    ELSE Bad(loc, "float_type", JNull)

\* the constraint gt=0 on a value that passed the type check
Gt0(r, loc) ==
    IF r.errs # <<>> THEN r
    ELSE IF ~NumGt(r.val, 0) THEN Bad(loc, "greater_than", JNull)
    ELSE r

\* price: float = Field(..., gt=0)
PriceGt0(v, loc) == Gt0(FloatInput(v, loc), loc)

\* the validator with the limit itself refused (v >= 1000000)
price_limit_excluded(v) ==
    IF NumGt(v, PriceLimit) \/ (v.n = PriceLimit /\ v.s = <<>> /\ ~v.b)
    THEN None ELSE Some(v)

\* @field_validator('price'): raise ValueError if v > 1000000
price_not_too_high(v) == IF NumGt(v, PriceLimit) THEN None ELSE Some(v)

\* an after-validator applied to the outcome r of the built-in checks: it
\* sees only values that passed them; w is what it returns, None if it raises
AfterValidator(r, w, loc, dummy) ==
    IF r.errs # <<>> THEN r
    ELSE IF w = None THEN Bad(loc, "value_error", dummy)
    ELSE Good(w[1])

PriceChecked(r, loc) ==
    AfterValidator(r, IF r.errs = <<>> THEN price_not_too_high(r.val) ELSE None,
                   loc, JNull)

\* the price field as pydantic runs it
PriceField(v, loc) == PriceChecked(PriceGt0(v, loc), loc)

\* @field_validator('name') of step 3: raise ValueError unless some character
\* is a letter, else return v.strip()
name_must_contain_letters(v) ==
    IF ~(\E i \in 1..Len(v) : IsAlpha(v[i])) THEN None ELSE Some(Strip(v))

\* category: ProductCategory
CategoryField(v, loc) ==
    IF v.t = "str" /\ v.s \in ProductCategory THEN Good(v.s)
    ELSE Bad(loc, "enum", <<>>)

\* in_stock: bool in lax mode, for bool and str inputs
BoolField(v, loc) ==
    IF v.t = "bool" THEN Good(v.b)
    ELSE IF v.t = "str" /\ v.s \in {<<"t", "r", "u", "e">>, <<"y", "e", "s">>}
        THEN Good(TRUE)
    ELSE IF v.t = "str" /\ v.s \in {<<"f", "a", "l", "s", "e">>, <<"n", "o">>}
        THEN Good(FALSE)
    ELSE IF v.t = "str" THEN Bad(loc, "bool_parsing", FALSE)
    ELSE Bad(loc, "bool_type", FALSE)

\* ------------------------------------------------------------------------
\* The models: Product, ProductListingRequest, ChatGPTResponse
\* ------------------------------------------------------------------------
\* name: str = Field(..., min_length=1, max_length=100), as step 4 has it
NameField4(data, loc) ==
    IF ~Has(data, kName) THEN Bad(loc, "missing", <<>>)
    ELSE StrField(Get(data, kName), loc, NameMinLength, NameMaxLength)

NameChecked(r, loc) ==
    AfterValidator(r,
                   IF r.errs = <<>> THEN name_must_contain_letters(r.val)
                   ELSE None,
                   loc, <<>>)

\* the same field in step 3, followed by name_must_contain_letters
NameField3(data, loc) == NameChecked(NameField4(data, loc), loc)

\* the fields of a Product put together: the errors of all fields in field
\* order, and the instance
ProductOf(name, price, category, description, brand, in_stock) ==
    [errs |-> name.errs \o price.errs \o category.errs \o description.errs
              \o brand.errs \o in_stock.errs,
     val |-> [name |-> name.val, price |-> price.val,
              category |-> category.val, description |-> description.val,
              brand |-> brand.val, in_stock |-> in_stock.val]]

\* Product(**data) with the name field validated as nameField; data is a
\* dict
ProductModel(data, loc, nameField) ==
    ProductOf(nameField,
              IF ~Has(data, kPrice)
              THEN Bad(loc \o <<"price">>, "missing", JNull)
              ELSE PriceField(Get(data, kPrice), loc \o <<"price">>),
              IF ~Has(data, kCategory)
              THEN Bad(loc \o <<"category">>, "missing", <<>>)
              ELSE CategoryField(Get(data, kCategory), loc \o <<"category">>),
              IF ~Has(data, kDescription) THEN Good(None)
              ELSE OptionalStrField(Get(data, kDescription),
                                    loc \o <<"description">>,
                                    DescriptionMaxLength),
              IF ~Has(data, kBrand) THEN Good(None)
              ELSE OptionalStrField(Get(data, kBrand), loc \o <<"brand">>,
                                    BrandMaxLength),
              IF ~Has(data, kInStock) THEN Good(TRUE)
              ELSE BoolField(Get(data, kInStock), loc \o <<"in_stock">>))

Product4(data, loc) == ProductModel(data, loc, NameField4(data, loc \o <<"name">>))

Product3(data, loc) == ProductModel(data, loc, NameField3(data, loc \o <<"name">>))

NoProduct ==
    [name |-> <<>>, price |-> JNull, category |-> <<>>, description |-> None,
     brand |-> None, in_stock |-> FALSE]

\* a str field with a default
DefaultStrField(data, k, loc, default) ==
    IF ~Has(data, k) THEN Good(default) ELSE StrField(Get(data, k), loc, 0, 0 - 1)

\* what a constructor call does: exc is "none" and val the instance, or exc
\* is the exception raised (errs: the errors of a ValidationError)
Constructed(val) == [exc |-> "none", val |-> Some(val), errs |-> <<>>]
Raised(exc, errs) == [exc |-> exc, val |-> None, errs |-> errs]

\* the outcome of a constructor from the errors and the value of its fields
Outcome(errs, val) ==
    IF errs # <<>> THEN Raised("ValidationError", errs) ELSE Constructed(val)

RequestOf(product, ta, tone, language) ==
    Outcome(product.errs \o ta.errs \o tone.errs \o language.errs,
            [product |-> product.val, target_audience |-> ta.val,
             tone |-> tone.val, language |-> language.val])

\* ProductListingRequest(**json_data) with the product field validated by
\* product: ** needs a mapping, else TypeError
RequestModel(json_data, product) ==
    IF json_data.t # "obj" THEN Raised("TypeError", <<>>)
    ELSE RequestOf(product,
                   DefaultStrField(json_data, kTargetAudience,
                                   <<"target_audience">>, DefaultTargetAudience),
                   DefaultStrField(json_data, kTone, <<"tone">>, DefaultTone),
                   DefaultStrField(json_data, kLanguage, <<"language">>,
                                   DefaultLanguage))

\* the product field of a request: required, and a dict
ProductField4(json_data) ==
    IF ~Has(json_data, kProduct)
        THEN Bad(<<"product">>, "missing", NoProduct)
    ELSE IF Get(json_data, kProduct).t # "obj"
        THEN Bad(<<"product">>, "model_type", NoProduct)
    ELSE Product4(Get(json_data, kProduct), <<"product">>)

ProductField3(json_data) ==
    IF ~Has(json_data, kProduct)
        THEN Bad(<<"product">>, "missing", NoProduct)
    ELSE IF Get(json_data, kProduct).t # "obj"
        THEN Bad(<<"product">>, "model_type", NoProduct)
    ELSE Product3(Get(json_data, kProduct), <<"product">>)

\* ProductListingRequest(**json_data) of step4_integration.py
ProductListingRequest4(json_data) ==
    RequestModel(json_data,
                 IF json_data.t = "obj" THEN ProductField4(json_data)
                 ELSE Good(NoProduct))

\* ProductListingRequest(**json_data) of validate_json_step3.py
ProductListingRequest3(json_data) ==
    RequestModel(json_data,
                 IF json_data.t = "obj" THEN ProductField3(json_data)
                 ELSE Good(NoProduct))

\* the errors of the items of features that are not str
RECURSIVE ItemErrors(_, _, _)
ItemErrors(xs, i, loc) ==
    IF i > Len(xs) THEN <<>>
    ELSE (IF xs[i].t # "str"
          THEN <<FieldError(loc \o <<ToString(i - 1)>>, "string_type")>>
          ELSE <<>>) \o ItemErrors(xs, i + 1, loc)

ItemsChecked(v, errs) ==
    IF errs # <<>> THEN [errs |-> errs, val |-> <<>>]
    ELSE Good([i \in 1..Len(v.xs) |-> v.xs[i].s])

\* features: List[str] = Field(..., min_length=3, max_length=10)
FeaturesField(v, loc) ==
    IF v.t # "arr" THEN Bad(loc, "list_type", <<>>)
    ELSE IF Len(v.xs) < FeaturesMinLength THEN Bad(loc, "too_short", <<>>)
    ELSE IF Len(v.xs) > FeaturesMaxLength THEN Bad(loc, "too_long", <<>>)
    ELSE ItemsChecked(v, ItemErrors(v.xs, 1, loc))

ResponseOf(title, description, features, keywords) ==
    Outcome(title.errs \o description.errs \o features.errs \o keywords.errs,
            [title |-> title.val, description |-> description.val,
             features |-> features.val, keywords |-> keywords.val])

\* ChatGPTResponse(**response_data)
ChatGPTResponse(response_data) ==
    IF response_data.t # "obj" THEN Raised("TypeError", <<>>)
    ELSE ResponseOf(
             IF ~Has(response_data, kTitle)
             THEN Bad(<<"title">>, "missing", <<>>)
             ELSE StrField(Get(response_data, kTitle), <<"title">>,
                           TitleMinLength, TitleMaxLength),
             IF ~Has(response_data, kDescription)
             THEN Bad(<<"description">>, "missing", <<>>)
             ELSE StrField(Get(response_data, kDescription), <<"description">>,
                           ResponseDescriptionMinLength,
                           ResponseDescriptionMaxLength),
             IF ~Has(response_data, kFeatures)
             THEN Bad(<<"features">>, "missing", <<>>)
             ELSE FeaturesField(Get(response_data, kFeatures), <<"features">>),
             IF ~Has(response_data, kKeywords)
             THEN Bad(<<"keywords">>, "missing", <<>>)
             ELSE StrField(Get(response_data, kKeywords), <<"keywords">>,
                           KeywordsMinLength, 0 - 1))

\* ------------------------------------------------------------------------
\* The stages of step4_integration.py
\* ------------------------------------------------------------------------
\* what a call does: exc is "none" and ret the value returned, or exc is the
\* exception that leaves the function; printed are the field errors it
\* printed
Returns(ret, printed) == [exc |-> "none", ret |-> ret, printed |-> printed]
Raises(exc) == [exc |-> exc, ret |-> None, printed |-> <<>>]

\* "except ValidationError": the errors are printed and None is returned;
\* any other exception goes on
ExceptValidationError(r) ==
    IF r.exc = "none" THEN Returns(r.val, <<>>)
    ELSE IF r.exc = "ValidationError" THEN Returns(None, r.errs)
    ELSE Raises(r.exc)

\* validate_input(json_data): only ValidationError is caught
validate_input(data) == ExceptValidationError(ProductListingRequest4(data))

JsonFence == <<BT, BT, BT, "j", "s", "o", "n">>
PlainFence == <<BT, BT, BT>>

\* the cleaning of the reply: content[7:-3] / content[3:-3]
CleanResponse(content) ==
    IF StartsWith(content, JsonFence) THEN SliceFromToNeg(content, 7, 3)
    ELSE IF StartsWith(content, PlainFence) THEN SliceFromToNeg(content, 3, 3)
    ELSE content

\* call_chatgpt(product_request) when the client answers with reply: the
\* attribute access on product_request is outside the try, everything from
\* the API call to the cleaning is inside it
call_chatgpt(product_request, reply) ==
    IF product_request = None THEN Raises("AttributeError")
    ELSE IF reply.kind = "error" THEN Returns(None, <<>>)
    ELSE IF reply.kind = "none" THEN Returns(None, <<>>)
    ELSE Returns(Some(CleanResponse(reply.content)), <<>>)

\* "except json.JSONDecodeError": None is returned; else the parsed value
\* goes to ChatGPTResponse
ExceptJSONDecodeError(parsed) ==
    IF ~parsed.ok THEN Returns(None, <<>>)
    ELSE ExceptValidationError(ChatGPTResponse(parsed.val))

\* validate_chatgpt_response(response_text): JSONDecodeError and
\* ValidationError are caught
validate_chatgpt_response(response_text) ==
    ExceptJSONDecodeError(JsonLoads(response_text))

\* Python's "not x" for an optional model instance
NotInstance(x) == x = None

\* Python's "not x" for an optional str: None and "" are false
NotText(x) == x = None \/ x[1] = <<>>

\* validated_input.dict() / validated_output.dict()
ProductDict(p) ==
    JObj(<<Member(kName, JStr(p.name)),
           Member(kPrice, p.price),
           Member(kCategory, JStr(p.category)),
           Member(kDescription,
                  IF p.description = None THEN JNull ELSE JStr(p.description[1])),
           Member(kBrand, IF p.brand = None THEN JNull ELSE JStr(p.brand[1])),
           Member(kInStock, JBool(p.in_stock))>>)

RequestDict(r) ==
    JObj(<<Member(kProduct, ProductDict(r.product)),
           Member(kTargetAudience, JStr(r.target_audience)),
           Member(kTone, JStr(r.tone)),
           Member(kLanguage, JStr(r.language))>>)

ResponseDict(r) ==
    JObj(<<Member(kTitle, JStr(r.title)),
           Member(kDescription, JStr(r.description)),
           Member(kFeatures, JArr([i \in 1..Len(r.features) |-> JStr(r.features[i])])),
           Member(kKeywords, JStr(r.keywords))>>)

\* ------------------------------------------------------------------------
\* Inputs: the json_data handed to the validators
\* ------------------------------------------------------------------------
\* longest product name drawn
MaxNameLen == 3

\* a letter, a digit and a blank: enough for names with and without letters
\* and with surrounding whitespace
NameChars == {"a", "1", SP}

Names == UNION {[1..k -> NameChars] : k \in 0..MaxNameLen}

\* a dict member that is there or not
OptMember(k, o) == IF o = None THEN <<>> ELSE <<Member(k, o[1])>>

MkProduct(name, price, category, description, brand, in_stock) ==
    JObj(OptMember(kName, name) \o OptMember(kPrice, price)
         \o OptMember(kCategory, category)
         \o OptMember(kDescription, description) \o OptMember(kBrand, brand)
         \o OptMember(kInStock, in_stock))

MkRequest(product, target_audience, tone, language) ==
    JObj(OptMember(kProduct, product)
         \o OptMember(kTargetAudience, target_audience)
         \o OptMember(kTone, tone) \o OptMember(kLanguage, language))

HomeBaristas ==
    <<"h", "o", "m", "e", " ", "b", "a", "r", "i", "s", "t", "a", "s">>

WarmAndInviting ==
    <<"w", "a", "r", "m", " ", "a", "n", "d", " ", "i", "n", "v", "i", "t",
      "i", "n", "g">>

ThermalCarafe ==
    <<"t", "h", "e", "r", "m", "a", "l", " ", "c", "a", "r", "a", "f", "e">>

BrewMaster ==
    <<"B", "r", "e", "w", "M", "a", "s", "t", "e", "r">>

Toys == <<"t", "o", "y", "s">>

\* the test data of test_integration, with name and price left open
TestData(name, price, category) ==
    MkRequest(Some(MkProduct(name, price, category, Some(JStr(ThermalCarafe)),
                             Some(JStr(BrewMaster)), Some(JBool(TRUE)))),
              Some(JStr(HomeBaristas)), Some(JStr(WarmAndInviting)),
              Some(JStr(DefaultLanguage)))

\* the same with every optional field left to its default
MinimalData(name, price, category) ==
    MkRequest(Some(MkProduct(name, price, category, None, None, None)),
              None, None, None)

NameInputs ==
    {None, Some(JNum(FALSE, 123, <<>>))} \cup {Some(JStr(s)) : s \in Names}

\* -5, 0, 0.01, 89.99, 1000000, 1000000.01, 1000001, "abc", "5", absent
PriceInputs ==
    {None, Some(JNum(TRUE, 5, <<>>)), Some(JNum(FALSE, 0, <<>>)),
     Some(JNum(FALSE, 0, <<"0", "1">>)), Some(JNum(FALSE, 89, <<"9", "9">>)),
     Some(JNum(FALSE, PriceLimit, <<>>)),
     Some(JNum(FALSE, PriceLimit, <<"0", "1">>)),
     Some(JNum(FALSE, PriceLimit + 1, <<>>)),
     Some(JStr(<<"a", "b", "c">>)), Some(JStr(<<"5">>))}

CategoryInputs ==
    {None, Some(JStr(HOME_GOODS)), Some(JStr(BOOKS)), Some(JStr(Toys))}

\* values that are not JSON objects
NonObjects ==
    {JNull, JArr(<<>>), JArr(<<JStr(kProduct)>>), JNum(FALSE, 5, <<>>),
     JStr(kProduct), JBool(TRUE)}

\* requests whose product is missing or not an object
BadProducts ==
    {MkRequest(None, None, None, None),
     MkRequest(Some(JStr(kName)), None, None, None),
     MkRequest(Some(JNull), Some(JStr(HomeBaristas)), None, None),
     MkRequest(Some(MkProduct(Some(JStr(<<"a">>)),
                              Some(JNum(FALSE, 89, <<"9", "9">>)),
                              Some(JStr(HOME_GOODS)), None, None, None)),
               Some(JNum(FALSE, 5, <<>>)), None, None)}

\* the inputs of the pipeline
PipelineInputs ==
    NonObjects \cup BadProducts
    \cup {TestData(n, p, Some(JStr(HOME_GOODS))) :
              n \in NameInputs, p \in PriceInputs}
    \cup {MinimalData(n, p, c) :
              n \in NameInputs,
              p \in {Some(JNum(TRUE, 5, <<>>)), Some(JNum(FALSE, 89, <<"9", "9">>))},
              c \in {Some(JStr(HOME_GOODS)), Some(JStr(Toys))}}

\* the inputs of the models alone
ModelInputs ==
    NonObjects \cup BadProducts
    \cup {MkRequest(Some(MkProduct(n, p, c, d, d, s)), t, t, t) :
              n \in NameInputs, p \in PriceInputs, c \in CategoryInputs,
              d \in {None, Some(JNull), Some(JStr(BrewMaster))},
              s \in {None, Some(JBool(FALSE)), Some(JStr(<<"y", "e", "s">>)),
                     Some(JStr(Toys))},
              t \in {None, Some(JStr(HomeBaristas))}}

\* ------------------------------------------------------------------------
\* Replies of the Model Client
\* ------------------------------------------------------------------------
QuoteText(s) == <<Q>> \o s \o <<Q>>
PairText(k, text) == QuoteText(k) \o <<":", SP>> \o text

\* a reply of the requested shape that satisfies ChatGPTResponse
ValidBody ==
    <<"{">> \o PairText(kTitle, QuoteText(Rep("T", TitleMinLength)))
    \o <<",", NL>>
    \o PairText(kDescription, QuoteText(Rep("d", ResponseDescriptionMinLength)))
    \o <<",", NL>>
    \o PairText(kFeatures,
                <<"[">> \o QuoteText(<<"f", "1">>) \o <<",", SP>>
                \o QuoteText(<<"f", "2">>) \o <<",", SP>>
                \o QuoteText(<<"f", "3">>) \o <<"]">>)
    \o <<",", NL>>
    \o PairText(kKeywords, QuoteText(Rep("k", KeywordsMinLength)))
    \o <<"}">>

\* JSON objects that violate ChatGPTResponse: a title one character short
\* and the other fields missing; two features only
ShortTitleBody ==
    <<"{">> \o PairText(kTitle, QuoteText(Rep("T", TitleMinLength - 1)))
    \o <<"}">>

TwoFeaturesBody ==
    <<"{">> \o PairText(kTitle, QuoteText(Rep("T", TitleMinLength)))
    \o <<",">>
    \o PairText(kDescription, QuoteText(Rep("d", ResponseDescriptionMinLength)))
    \o <<",">>
    \o PairText(kFeatures,
                <<"[">> \o QuoteText(<<"f", "1">>) \o <<",">>
                \o QuoteText(<<"f", "2">>) \o <<"]">>)
    \o <<",">>
    \o PairText(kKeywords, QuoteText(Rep("k", KeywordsMinLength)))
    \o <<"}">>

NotJsonAtAll ==
    <<"n", "o", "t", " ", "j", "s", "o", "n", " ", "a", "t", " ", "a", "l",
      "l">>

\* the bodies a reply is made of: the empty text, text that is not JSON,
\* JSON that is not an object, objects of the wrong and of the right shape
Bodies ==
    {<<>>, NotJsonAtAll, <<"{">>,
     <<"n", "u", "l", "l">>, <<"[", "1", "]">>, <<"4", "2">>, QuoteText(kTitle),
     <<"{", "}">>, ShortTitleBody, TwoFeaturesBody,
     ValidBody, <<NL>> \o ValidBody \o <<NL>>}

\* how a body is wrapped: not at all, in a JSON or a plain code fence, in a
\* JSON fence followed by a newline, in a JSON fence that is not closed
Wraps == {"bare", "json", "plain", "json_newline", "json_unclosed"}

Wrap(w, body) ==
    IF w = "json" THEN JsonFence \o body \o PlainFence
    ELSE IF w = "plain" THEN PlainFence \o body \o PlainFence
    ELSE IF w = "json_newline" THEN JsonFence \o body \o PlainFence \o <<NL>>
    ELSE IF w = "json_unclosed" THEN JsonFence \o body
    ELSE body

\* what the client does: kind "error" - the API call raises; "none" - the
\* message has no content; "text" - content is the text of the message
\* (wrap and body tell how the text is made)
Reply(kind, content, wrap, body) ==
    [kind |-> kind, content |-> content, wrap |-> wrap, body |-> body]

NoReply == Reply("pending", <<>>, "bare", <<>>)

Replies ==
    {Reply("error", <<>>, "bare", <<>>), Reply("none", <<>>, "bare", <<>>)}
    \cup {Reply("text", Wrap(w, b), w, b) : w \in Wraps, b \in Bodies}

\* ------------------------------------------------------------------------
\* State
\* ------------------------------------------------------------------------
VARIABLES
    module,            \* "step4": the pipeline; "models3" / "models4": the
                       \* models of step 3 / step 4 on their own
    pc,                \* the state of the run
    json_data,         \* the input
    validated_input,   \* None or the ProductListingRequest
    reply,             \* what the Model Client did
    chatgpt_response,  \* None or the cleaned text call_chatgpt returned
    validated_output,  \* None or the ChatGPTResponse
    result,            \* the dict process_product_request returned
    exception,         \* the exception that left the run, "none" if none
    printed,           \* the field errors the last stage printed
    trace              \* the stages entered so far, in order

vars ==
    <<module, pc, json_data, validated_input, reply, chatgpt_response,
      validated_output, result, exception, printed, trace>>

NoResult == [status |-> "pending"]

Statuses ==
    {"success", "input_validation_failed", "chatgpt_failed",
     "output_validation_failed"}

Init ==
    /\ module = "step4"
    /\ pc = "Start"
    /\ json_data \in PipelineInputs
    /\ validated_input = None
    /\ reply = NoReply
    /\ chatgpt_response = None
    /\ validated_output = None
    /\ result = NoResult
    /\ exception = "none"
    /\ printed = <<>>
    /\ trace = <<>>

\* ------------------------------------------------------------------------
\* process_product_request, stage by stage
\* ------------------------------------------------------------------------
\* Step 1: validate_input and the return on failure
ValidateInputStage ==
    /\ module = "step4"
    /\ pc = "Start"
    /\ \E r \in {validate_input(json_data)} :
           /\ trace' = Append(trace, "validate_input")
           /\ printed' = r.printed
           /\ IF r.exc # "none"
              THEN /\ exception' = r.exc
                   /\ pc' = "Raised"
                   /\ UNCHANGED <<validated_input, result>>
              ELSE IF NotInstance(r.ret)
              THEN /\ result' = [status |-> "input_validation_failed",
                                 error |-> "Input data invalid"]
                   /\ pc' = "InputInvalid"
                   /\ UNCHANGED <<validated_input, exception>>
              ELSE /\ validated_input' = r.ret
                   /\ pc' = "InputValidated"
                   /\ UNCHANGED <<result, exception>>
    /\ UNCHANGED <<module, json_data, reply, chatgpt_response, validated_output>>

\* Step 2: call_chatgpt, with whatever the client does, and the return on
\* failure
CallChatGPTStage ==
    /\ module = "step4"
    /\ pc = "InputValidated"
    /\ \E answer \in Replies :
        \E r \in {call_chatgpt(validated_input, answer)} :
            /\ reply' = answer
            /\ trace' = Append(trace, "call_chatgpt")
            /\ printed' = r.printed
            /\ IF r.exc # "none"
               THEN /\ exception' = r.exc
                    /\ pc' = "Raised"
                    /\ UNCHANGED <<chatgpt_response, result>>
               ELSE IF NotText(r.ret)
               THEN /\ chatgpt_response' = r.ret
                    /\ result' = [status |-> "chatgpt_failed",
                                  error |-> "ChatGPT API call failed"]
                    /\ pc' = "ModelCallFailed"
                    /\ UNCHANGED exception
               ELSE /\ chatgpt_response' = r.ret
                    /\ pc' = "ModelCalled"
                    /\ UNCHANGED <<result, exception>>
    /\ UNCHANGED <<module, json_data, validated_input, validated_output>>

\* Step 3: validate_chatgpt_response and the two returns
ValidateOutputStage ==
    /\ module = "step4"
    /\ pc = "ModelCalled"
    /\ \E r \in {IF chatgpt_response = None THEN Raises("TypeError")
                ELSE validate_chatgpt_response(chatgpt_response[1])} :
           /\ trace' = Append(trace, "validate_chatgpt_response")
           /\ printed' = r.printed
           /\ IF r.exc # "none"
              THEN /\ exception' = r.exc
                   /\ pc' = "Raised"
                   /\ UNCHANGED <<validated_output, result>>
              ELSE IF NotInstance(r.ret)
              THEN /\ result' = [status |-> "output_validation_failed",
                                 error |-> "ChatGPT response invalid",
                                 raw_response |-> chatgpt_response[1]]
                   /\ pc' = "OutputInvalid"
                   /\ UNCHANGED <<validated_output, exception>>
              ELSE /\ validated_output' = r.ret
                   /\ result' = [status |-> "success",
                                 input |-> RequestDict(validated_input[1]),
                                 output |-> ResponseDict(r.ret[1])]
                   /\ pc' = "Success"
                   /\ UNCHANGED exception
    /\ UNCHANGED <<module, json_data, validated_input, reply, chatgpt_response>>

Next == ValidateInputStage \/ CallChatGPTStage \/ ValidateOutputStage

Spec == Init /\ [][Next]_vars

\* ------------------------------------------------------------------------
\* The models on their own: the validation of one JSON document by the
\* models of step 3 (the script's try block) and of step 4 (validate_input)
\* ------------------------------------------------------------------------
InitModels ==
    /\ module \in {"models3", "models4"}
    /\ pc = "Start"
    /\ json_data \in ModelInputs
    /\ validated_input = None
    /\ reply = NoReply
    /\ chatgpt_response = None
    /\ validated_output = None
    /\ result = NoResult
    /\ exception = "none"
    /\ printed = <<>>
    /\ trace = <<>>

\* validate_json_step3.py: ProductListingRequest(**json_data) in a try that
\* catches ValidationError and, after it, every other Exception
ValidateStep3 ==
    /\ module = "models3"
    /\ pc = "Start"
    /\ \E r \in {ProductListingRequest3(json_data)} :
           /\ validated_input' = r.val
           /\ printed' = r.errs
           /\ pc' = IF r.exc = "none" THEN "InputValidated"
                    ELSE IF r.exc = "ValidationError" THEN "InputInvalid"
                    ELSE "OtherError"
    /\ trace' = Append(trace, "ProductListingRequest")
    /\ UNCHANGED <<module, json_data, reply, chatgpt_response, validated_output,
                   result, exception>>

\* step4_integration.py: validate_input(json_data) called by itself
ValidateStep4 ==
    /\ module = "models4"
    /\ pc = "Start"
    /\ \E r \in {validate_input(json_data)} :
           /\ validated_input' = r.ret
           /\ printed' = r.printed
           /\ exception' = r.exc
           /\ pc' = IF r.exc # "none" THEN "Raised"
                    ELSE IF NotInstance(r.ret) THEN "InputInvalid"
                    ELSE "InputValidated"
    /\ trace' = Append(trace, "validate_input")
    /\ UNCHANGED <<module, json_data, reply, chatgpt_response, validated_output,
                   result>>

NextModels == ValidateStep3 \/ ValidateStep4

SpecModels == InitModels /\ [][NextModels]_vars

\* ------------------------------------------------------------------------
\* Properties
\* ------------------------------------------------------------------------
Stages == <<"validate_input", "call_chatgpt", "validate_chatgpt_response">>

\* the run is over: it returned or an exception left it
Ended == pc \notin {"Start", "InputValidated", "ModelCalled"}

Entered(stage) == \E i \in 1..Len(trace) : trace[i] = stage

\* the product of json_data, when json_data is a request with a product
HasProductDict(data) ==
    data.t = "obj" /\ Has(data, kProduct) /\ Get(data, kProduct).t = "obj"

\* obj with the member k set to v
SetMember(obj, k, v) ==
    JObj([i \in 1..Len(obj.xs) |->
              IF obj.xs[i].k = k THEN Member(k, v) ELSE obj.xs[i]])

\* json_data with product.price set to v
WithPrice(data, v) ==
    SetMember(data, kProduct, SetMember(Get(data, kProduct), kPrice, v))

\* the constructor of the module under test
ModelOf(m, data) ==
    IF m = "models3" THEN ProductListingRequest3(data)
    ELSE ProductListingRequest4(data)

ErrorTypesAt(errs, loc) == {errs[i].type : i \in {j \in 1..Len(errs) : errs[j].loc = loc}}

\* C1: in every run the stages run in the order validate_input,
\* call_chatgpt, validate_chatgpt_response, each at most once; the model is
\* called only after input validation succeeded, the output validator runs
\* only on text the model call returned; and a run that is over has exactly
\* one of the four terminal statuses.
C1_StagesInOrderToOneStatus ==
    /\ Len(trace) <= Len(Stages)
    /\ trace = SubSeq(Stages, 1, Len(trace))
    /\ Entered("call_chatgpt") => validated_input # None
    /\ Entered("validate_chatgpt_response") =>
           chatgpt_response # None /\ chatgpt_response[1] # <<>>
    /\ Ended => result.status \in Statuses
    /\ ~Ended => result = NoResult

\* C2: no exception leaves a stage or the run, whatever the input value and
\* whatever the reply; the run always ends in one of the four statuses.
C2_NoExceptionEscapes ==
    /\ exception = "none"
    /\ pc # "Raised"
    /\ Ended => result.status \in Statuses

\* C3: a run whose input fails validation returns input_validation_failed
\* together with the field errors of the stage, one for each violated field.
C3_InputFailureCarriesFieldErrors ==
    pc = "InputInvalid" =>
        /\ result.status = "input_validation_failed"
        /\ printed # <<>>
        /\ \E k \in DOMAIN result \ {"status", "error"} : result[k] = printed

\* C4: when output validation fails, raw_response is the text the Model
\* Client returned, character for character.
C4_RawResponseIsModelText ==
    pc = "OutputInvalid" =>
        /\ result.status = "output_validation_failed"
        /\ result.raw_response = reply.content

\* C5: the cleaning step returns exactly the body of a fenced reply (closed,
\* closed and followed by a newline, or not closed) and returns a reply
\* that does not begin with a fence marker unchanged.
C5_SanitizerStripsOnlyFence ==
    (Entered("call_chatgpt") /\ reply.kind = "text") =>
        chatgpt_response =
            Some(IF reply.wrap = "bare" THEN reply.content ELSE reply.body)

\* C6: a reply that does not parse as JSON and a reply that parses but
\* violates ChatGPTResponse give different values of
\* validate_chatgpt_response, so that the caller can tell the kinds apart.
C6_FailureKindsDistinct ==
    pc = "OutputInvalid" =>
        \A other \in Bodies \ {<<>>} :
            (/\ JsonLoads(other).ok # JsonLoads(chatgpt_response[1]).ok
             /\ validate_chatgpt_response(other).exc = "none"
             /\ validate_chatgpt_response(other).ret = None)
            => validate_chatgpt_response(other).ret # validated_output

\* C7: every input the pipeline's validator accepts has a product.name with
\* at least one letter and no surrounding whitespace; the Model Client is
\* never called for a name without a letter.
C7_AcceptedNameHasLetter ==
    validated_input # None =>
        LET name == validated_input[1].product.name
        IN  /\ \E i \in 1..Len(name) : IsAlpha(name[i])
            /\ ~IsSpace(name[1])
            /\ ~IsSpace(name[Len(name)])

\* C8: with the other fields valid, validation succeeds if and only if
\* 0 < price <= 1,000,000; a price <= 0 is refused by the built-in check
\* alone (greater_than), a price above the limit by the custom validator
\* (value_error).
C8_PriceRange ==
    (/\ pc # "Start"
     /\ HasProductDict(json_data)
     /\ Has(Get(json_data, kProduct), kPrice)
     /\ Get(Get(json_data, kProduct), kPrice).t = "num"
     /\ ModelOf(module, WithPrice(json_data, JNum(FALSE, 1, <<>>))).exc = "none")
    => LET price == Get(Get(json_data, kProduct), kPrice)
           positive == ~price.b /\ (price.n > 0 \/ price.s # <<>>)
           overLimit == ~price.b /\ (price.n > PriceLimit
                                     \/ (price.n = PriceLimit /\ price.s # <<>>))
           kinds == ErrorTypesAt(printed, <<"product", "price">>)
       IN  /\ (validated_input # None) <=> (positive /\ ~overLimit)
           /\ ~positive => kinds = {"greater_than"}
           /\ overLimit => kinds = {"value_error"}
           /\ validated_input # None => validated_input[1].product.price = price

\* a run of the models that accepted the limit price itself
C8_Witness ==
    /\ module \in {"models3", "models4"}
    /\ pc = "InputValidated"
    /\ validated_input # None
    /\ validated_input[1].product.price = JNum(FALSE, PriceLimit, <<>>)

\* C9: a request r that validated, dumped to a dict and validated again, is
\* accepted and equal to r field for field.
C9_RoundTrip ==
    (module \in {"models3", "models4"} /\ validated_input # None) =>
        LET again == ModelOf(module, RequestDict(validated_input[1]))
        IN  /\ again.exc = "none"
            /\ again.val = validated_input

\* a request of step 3 whose name was trimmed and whose optional fields were
\* left to the defaults
C9_Witness ==
    /\ module = "models3"
    /\ validated_input # None
    /\ Get(Get(json_data, kProduct), kName).s # validated_input[1].product.name
    /\ ~Has(Get(json_data, kProduct), kInStock)
    /\ ~Has(json_data, kTone)
    /\ validated_input[1].tone = DefaultTone
    /\ validated_input[1].product.in_stock = TRUE

\* C10: for a valid input the status is chatgpt_failed exactly when the call
\* failed or the reply was absent or empty; a non-empty reply ends in success
\* or output_validation_failed.
C10_ChatGPTFailedIffNoReply ==
    (Ended /\ Entered("call_chatgpt")) =>
        IF reply.kind \in {"error", "none"} \/ reply.content = <<>>
        THEN result.status = "chatgpt_failed"
        ELSE result.status \in {"success", "output_validation_failed"}

====
